---- MODULE Spec2Model ----
(***************************************************************************)
(* Model of EnhancedHTMLPipeline (src/enhanced_html_pipeline.py): the      *)
(* pipeline object's raw_data, cleaned_data and cleaning_log, and the      *)
(* steps of run(): load_data, the five numbered blocks of clean_data, and  *)
(* create_html_dashboard's two analyze_data calls.                         *)
(*                                                                         *)
(* A DataFrame is [nrows, cols], cols a sequence of [name, dtype, cells].  *)
(* DataFrames live in a heap `frames` and raw_data / cleaned_data are      *)
(* references into it, so that in-place edits (columns = ..., fillna(      *)
(* inplace=True), df[col] = ...) and fresh results (copy, drop,            *)
(* drop_duplicates) are told apart.                                        *)
(*                                                                         *)
(* Numbers are dyadic rationals m / 2^e, which is what float64 holds; the  *)
(* quartile, fence and median arithmetic of the code is exact on them.     *)
(* Column names are sequences of one-character strings.                    *)
(***************************************************************************)
EXTENDS Integers, Sequences, FiniteSets, TLC

\* ------------------------------------------------------------------ bounds
MaxRows == 2        \* rows of the enumerated datasets
MaxCols == 2        \* columns of the enumerated datasets
ProbeRows == 4      \* rows of the enumerated one-column datasets
MaxRuns == 2        \* clean_data calls on one pipeline object
MaxNameLen == 3     \* characters of the enumerated column names

\* --------------------------------------------------------------- constants
missing_threshold == 95      \* 0.95, in hundredths
FenceNum == 3                \* 1.5 = FenceNum / 2

\* ------------------------------------------------------------------ cells
Num(m, e) == [kind |-> "num", m |-> m, e |-> e, s |-> ""]
IntVal(n) == Num(n, 0)
NaN == [kind |-> "nan", m |-> 0, e |-> 0, s |-> ""]
Str(s) == [kind |-> "str", m |-> 0, e |-> 0, s |-> s]
Bool(b) == [kind |-> "bool", m |-> (IF b THEN 1 ELSE 0), e |-> 0, s |-> ""]

isnull(cell) == cell.kind = "nan"

RECURSIVE Pow2(_)
Pow2(n) == IF n <= 0 THEN 1 ELSE 2 * Pow2(n - 1)

Max2(a, b) == IF a >= b THEN a ELSE b

\* canonical form of m / 2^e: e = 0 or m odd
RECURSIVE Norm(_, _)
Norm(m, e) == IF e > 0 /\ m % 2 = 0 THEN Norm(m \div 2, e - 1) ELSE Num(m, e)

\* the numerator of a at denominator 2^E (E >= a.e)
AtExp(a, E) == a.m * Pow2(E - a.e)

Less(a, b) == LET E == Max2(a.e, b.e) IN AtExp(a, E) < AtExp(b, E)
Add(a, b) == LET E == Max2(a.e, b.e) IN Norm(AtExp(a, E) + AtExp(b, E), E)
Sub(a, b) == LET E == Max2(a.e, b.e) IN Norm(AtExp(a, E) - AtExp(b, E), E)
\* a * k / 2^sh
Scale(a, k, sh) == Norm(a.m * k, a.e + sh)

\* order of str values as Python sorts them
StrRank(s) == CASE s = "Unknown" -> 0
                [] s = "a" -> 1
                [] s = "b" -> 2
                [] OTHER -> 3

\* the order Series.mode() sorts its result by
ValueLess(a, b) == IF a.kind = "num" /\ b.kind = "num" THEN Less(a, b)
                   ELSE IF a.kind = "str" /\ b.kind = "str" THEN StrRank(a.s) < StrRank(b.s)
                   ELSE a.m < b.m

\* ------------------------------------------------------------ DataFrames
None == 0
FrameIds == {1, 2}
NoFrame == [nrows |-> 0 - 1, cols |-> <<>>]

Column(name, dtype, cells) == [name |-> name, dtype |-> dtype, cells |-> cells]
Frame(nrows, cols) == [nrows |-> nrows, cols |-> cols]

NumCols(d) == Len(d.cols)
shape(d) == <<d.nrows, NumCols(d)>>
columns(d) == [i \in 1..NumCols(d) |-> d.cols[i].name]

\* the non-missing cells of a column, in row order
NonNull(cells) == SelectSeq(cells, LAMBDA c : ~isnull(c))

\* Series.isnull().sum()
NullCount(cells) == Len(cells) - Len(NonNull(cells))

\* DataFrame.isnull().sum().sum()
RECURSIVE SumNulls(_, _)
SumNulls(cols, i) == IF i > Len(cols) THEN 0
                     ELSE NullCount(cols[i].cells) + SumNulls(cols, i + 1)

count_missing(d) == SumNulls(d.cols, 1)

\* row i as the tuple of its cells
Row(d, i) == [c \in 1..NumCols(d) |-> d.cols[c].cells[i]]

\* the frame holding rows idx (a sequence of row numbers) of d
TakeRows(d, idx) ==
    Frame(Len(idx),
          [c \in 1..NumCols(d) |->
              Column(d.cols[c].name, d.cols[c].dtype,
                     [k \in 1..Len(idx) |-> d.cols[c].cells[idx[k]]])])

Indices(n) == [i \in 1..n |-> i]

\* ------------------------------------------------- 1. column names
UpperCase == <<"A", "B", "C", "D", "E", "F", "G", "H", "I", "J", "K", "L", "M",
               "N", "O", "P", "Q", "R", "S", "T", "U", "V", "W", "X", "Y", "Z">>
LowerCase == <<"a", "b", "c", "d", "e", "f", "g", "h", "i", "j", "k", "l", "m",
               "n", "o", "p", "q", "r", "s", "t", "u", "v", "w", "x", "y", "z">>
Digits == {"0", "1", "2", "3", "4", "5", "6", "7", "8", "9"}

\* str.lower() on one character
ToLower(c) == IF \E i \in 1..Len(UpperCase) : UpperCase[i] = c
              THEN LowerCase[CHOOSE i \in 1..Len(UpperCase) : UpperCase[i] = c]
              ELSE c
\* [a-zA-Z0-9_]
WordChars == {UpperCase[i] : i \in 1..Len(UpperCase)}
             \cup {LowerCase[i] : i \in 1..Len(LowerCase)} \cup Digits \cup {"_"}
\* what str.strip() strips
Whitespace == {" ", "\t"}

RECURSIVE lstrip(_)
lstrip(s) == IF s # <<>> /\ Head(s) \in Whitespace THEN lstrip(Tail(s)) ELSE s

RECURSIVE rstrip(_)
rstrip(s) == IF s # <<>> /\ s[Len(s)] \in Whitespace
             THEN rstrip(SubSeq(s, 1, Len(s) - 1)) ELSE s

strip(s) == rstrip(lstrip(s))
lower(s) == [i \in 1..Len(s) |-> ToLower(s[i])]
replace(s, old, new) == [i \in 1..Len(s) |-> IF s[i] = old THEN new ELSE s[i]]
\* re.sub(r'[^a-zA-Z0-9_]', '', s)
re_sub_nonword(s) == SelectSeq(s, LAMBDA c : c \in WordChars)

\* the same without strip()
Standardize_no_strip(col) ==
    re_sub_nonword(replace(replace(lower(col), " ", "_"), "-", "_"))

Standardize(col) ==
    re_sub_nonword(replace(replace(lower(strip(col)), " ", "_"), "-", "_"))

Renamed(d) ==
    Frame(d.nrows,
          [c \in 1..NumCols(d) |->
              Column(Standardize(d.cols[c].name), d.cols[c].dtype, d.cols[c].cells)])

\* df[col] is a Series only when col names one column
NameCount(d, name) == Cardinality({c \in 1..NumCols(d) : d.cols[c].name = name})
HasDuplicateNames(d) == \E c \in 1..NumCols(d) : NameCount(d, d.cols[c].name) > 1

\* ------------------------------------------------- log records
\* one entry of cleaning_log: the text of log_action's argument, as its
\* message kind and the values formatted into it
LogRec(kind, col, n) == [kind |-> kind, col |-> col, n |-> n,
                         before |-> <<0, 0>>, after |-> <<0, 0>>]
ShapeRec(before, after) == [kind |-> "Cleaning complete", col |-> <<>>, n |-> 0,
                            before |-> before, after |-> after]

log_action(log, action) == Append(log, action)

\* ------------------------------------------------- 2. column drop pass
\* missing_pct >= missing_threshold
ExceedsThreshold_inclusive(missing, rows) ==
    rows # 0 /\ missing * 100 >= missing_threshold * rows

\* missing_pct > missing_threshold, missing_pct = missing / rows; with
\* rows = 0 the quotient is nan and the comparison is False
ExceedsThreshold(missing, rows) ==
    rows # 0 /\ missing * 100 > missing_threshold * rows

\* f"{missing_pct:.1%}" in tenths of a percent (round half to even)
PctTenths(missing, rows) ==
    LET q == (1000 * missing) \div rows
        r == (1000 * missing) % rows
    IN  IF 2 * r < rows THEN q
        ELSE IF 2 * r > rows THEN q + 1
        ELSE IF q % 2 = 0 THEN q ELSE q + 1

ShouldDrop(d, c) == ExceedsThreshold(NullCount(d.cols[c].cells), d.nrows)

\* the column positions the loop of lines 66-70 reaches without raising:
\* `if missing_pct > missing_threshold` raises ValueError when df[col] is
\* a DataFrame, that is when col names more than one column
FirstAmbiguous(d) ==
    IF HasDuplicateNames(d)
    THEN CHOOSE c \in 1..NumCols(d) :
            /\ NameCount(d, d.cols[c].name) > 1
            /\ \A b \in 1..(c - 1) : NameCount(d, d.cols[b].name) = 1
    ELSE NumCols(d) + 1

RECURSIVE DropRecords(_, _, _, _)
DropRecords(d, c, last, log) ==
    IF c > last THEN log
    ELSE DropRecords(d, c + 1, last,
            IF ShouldDrop(d, c)
            THEN log_action(log, LogRec("Dropped column", d.cols[c].name,
                                        PctTenths(NullCount(d.cols[c].cells), d.nrows)))
            ELSE log)

cols_to_drop(d) == {c \in 1..NumCols(d) : ShouldDrop(d, c)}

\* DataFrame.drop(columns=cols_to_drop)
drop(d, cs) ==
    Frame(d.nrows, SelectSeq(d.cols, LAMBDA col :
                     ~\E c \in cs : d.cols[c].name = col.name))

\* ------------------------------------------------- 3. duplicates
\* drop_duplicates(keep='last')
drop_duplicates_keep_last(d) ==
    IF d.nrows = 0 \/ NumCols(d) = 0 THEN d
    ELSE TakeRows(d, SelectSeq(Indices(d.nrows),
                     LAMBDA i : ~\E j \in (i + 1)..d.nrows : Row(d, j) = Row(d, i)))

\* DataFrame.drop_duplicates(): a frame with no row or no column is
\* returned as it is (DataFrame.empty); otherwise the first occurrence of
\* each row is kept, nan equal to nan
drop_duplicates(d) ==
    IF d.nrows = 0 \/ NumCols(d) = 0 THEN d
    ELSE TakeRows(d, SelectSeq(Indices(d.nrows),
                     LAMBDA i : ~\E j \in 1..(i - 1) : Row(d, j) = Row(d, i)))

\* ------------------------------------------------- 4. imputation
RECURSIVE SetToSeq(_)
SetToSeq(S) == IF S = {} THEN <<>>
               ELSE LET x == CHOOSE y \in S : TRUE IN <<x>> \o SetToSeq(S \ {x})

Sorted(vals) == SortSeq(vals, LAMBDA a, b : ValueLess(a, b))

\* Series.median(): nan on no value
median(cells) ==
    LET v == Sorted(NonNull(cells))
        n == Len(v)
    IN  IF n = 0 THEN NaN
        ELSE IF n % 2 = 1 THEN v[(n + 1) \div 2]
        ELSE Scale(Add(v[n \div 2], v[n \div 2 + 1]), 1, 1)

Occurrences(cells, v) == Cardinality({i \in 1..Len(cells) : cells[i] = v})

\* Series.mode(): the most frequent non-missing values, sorted
mode(cells) ==
    LET v == NonNull(cells)
        vals == {v[i] : i \in 1..Len(v)}
        top == {x \in vals : \A y \in vals : Occurrences(v, y) <= Occurrences(v, x)}
    IN  Sorted(SetToSeq(top))

\* fillna without inplace=True: the filled copy is thrown away
fillna_discarded(cells, value) == cells

fillna(cells, value) == [i \in 1..Len(cells) |-> IF isnull(cells[i]) THEN value ELSE cells[i]]

MedianDtypes == {"int64", "float64"}

\* the value lines 91-99 fill column col with
fill_val(col) ==
    IF col.dtype \in MedianDtypes THEN median(col.cells)
    ELSE IF Len(mode(col.cells)) > 0 THEN mode(col.cells)[1] ELSE Str("Unknown")

\* imputation that handles the median dtypes only
FilledColumn_median_only(col) ==
    IF NullCount(col.cells) > 0 /\ col.dtype \in MedianDtypes
    THEN Column(col.name, col.dtype, fillna(col.cells, median(col.cells)))
    ELSE col

FilledColumn(col) ==
    IF NullCount(col.cells) > 0
    THEN Column(col.name,
                IF fill_val(col).kind = "str" THEN "object" ELSE col.dtype,
                fillna(col.cells, fill_val(col)))
    ELSE col

FillRecord(col) ==
    LogRec(IF col.dtype \in MedianDtypes THEN "Filled with median"
           ELSE "Filled with mode/Unknown", col.name, NullCount(col.cells))

\* log_action left out of the mode/Unknown branch
RECURSIVE FillRecords_median_only(_, _, _)
FillRecords_median_only(d, c, log) ==
    IF c > NumCols(d) THEN log
    ELSE FillRecords_median_only(d, c + 1,
            IF NullCount(d.cols[c].cells) > 0 /\ d.cols[c].dtype \in MedianDtypes
            THEN log_action(log, FillRecord(d.cols[c])) ELSE log)

RECURSIVE FillRecords(_, _, _)
FillRecords(d, c, log) ==
    IF c > NumCols(d) THEN log
    ELSE FillRecords(d, c + 1,
            IF NullCount(d.cols[c].cells) > 0
            THEN log_action(log, FillRecord(d.cols[c])) ELSE log)

missing_filled(d) == count_missing(d)

\* dropna() in place of the fills: rows with a missing cell are removed
Filled_dropna(d) ==
    TakeRows(d, SelectSeq(Indices(d.nrows),
                LAMBDA i : \A c \in 1..NumCols(d) : ~isnull(d.cols[c].cells[i])))

Filled(d) == Frame(d.nrows, [c \in 1..NumCols(d) |-> FilledColumn(d.cols[c])])

\* ------------------------------------------------- 5. outlier capping
\* select_dtypes(include=[np.number])
NumberDtypes == {"int64", "float64", "float32"}

\* Series.quantile(k / 4), linear interpolation between order statistics
quantile(cells, k) ==
    LET v == Sorted(NonNull(cells))
        n == Len(v)
        lo == ((n - 1) * k) \div 4
        r == ((n - 1) * k) % 4
    IN  IF n = 0 THEN NaN
        ELSE IF r = 0 THEN v[lo + 1]
        ELSE Add(v[lo + 1], Scale(Sub(v[lo + 2], v[lo + 1]), r, 2))

IQR(cells) == Sub(quantile(cells, 3), quantile(cells, 1))
lower_bound(cells) ==
    IF Len(NonNull(cells)) = 0 THEN NaN
    ELSE Sub(quantile(cells, 1), Scale(IQR(cells), FenceNum, 1))
upper_bound(cells) ==
    IF Len(NonNull(cells)) = 0 THEN NaN
    ELSE Add(quantile(cells, 3), Scale(IQR(cells), FenceNum, 1))

\* v < lo and v > hi as numpy compares: False when either side is nan
Below(v, lo) == ~isnull(v) /\ ~isnull(lo) /\ Less(v, lo)
Above(v, hi) == ~isnull(v) /\ ~isnull(hi) /\ Less(hi, v)

outliers(cells) ==
    Cardinality({i \in 1..Len(cells) :
        Below(cells[i], lower_bound(cells)) \/ Above(cells[i], upper_bound(cells))})

\* np.clip(series, lo, None): the upper fence forgotten
clip_lower_only(cells, lo, hi) ==
    [i \in 1..Len(cells) |-> IF Below(cells[i], lo) THEN lo ELSE cells[i]]

\* np.clip(series, lo, hi)
clip(cells, lo, hi) ==
    [i \in 1..Len(cells) |->
        IF Below(cells[i], lo) THEN lo
        ELSE IF Above(cells[i], hi) THEN hi
        ELSE cells[i]]

\* an int64 column holds the clipped values as int64 when the fences it
\* was clipped to are whole numbers, as float64 otherwise
ClippedDtype(col) ==
    LET lo == lower_bound(col.cells)
        hi == upper_bound(col.cells)
        usedLo == \E i \in 1..Len(col.cells) : Below(col.cells[i], lo)
        usedHi == \E i \in 1..Len(col.cells) : Above(col.cells[i], hi)
    IN  IF col.dtype = "int64" /\ ((usedLo /\ lo.e > 0) \/ (usedHi /\ hi.e > 0))
        THEN "float64" ELSE col.dtype

CappedColumn(col) ==
    IF col.dtype \in NumberDtypes /\ outliers(col.cells) > 0
    THEN Column(col.name, ClippedDtype(col),
                clip(col.cells, lower_bound(col.cells), upper_bound(col.cells)))
    ELSE col

RECURSIVE CapRecords(_, _, _)
CapRecords(d, c, log) ==
    IF c > NumCols(d) THEN log
    ELSE CapRecords(d, c + 1,
            IF d.cols[c].dtype \in NumberDtypes /\ outliers(d.cols[c].cells) > 0
            THEN log_action(log, LogRec("Capped outliers", d.cols[c].name,
                                        outliers(d.cols[c].cells)))
            ELSE log)

RECURSIVE SumOutliers(_, _)
SumOutliers(d, c) ==
    IF c > NumCols(d) THEN 0
    ELSE (IF d.cols[c].dtype \in NumberDtypes THEN outliers(d.cols[c].cells) ELSE 0)
         + SumOutliers(d, c + 1)

total_outliers(d) == SumOutliers(d, 1)

Capped(d) == Frame(d.nrows, [c \in 1..NumCols(d) |-> CappedColumn(d.cols[c])])

\* ------------------------------------------------- analysis
numeric_cols(d) == SelectSeq(d.cols, LAMBDA col : col.dtype \in NumberDtypes)
categorical_cols(d) == SelectSeq(d.cols, LAMBDA col : col.dtype = "object")

analyze_data(d) ==
    [rows |-> d.nrows,
     columns |-> NumCols(d),
     numeric_columns |-> Len(numeric_cols(d)),
     categorical_columns |-> Len(categorical_cols(d)),
     total_missing |-> count_missing(d),
     numeric_summary |-> {numeric_cols(d)[i].name : i \in 1..Len(numeric_cols(d))},
     categorical_summary |-> {categorical_cols(d)[i].name : i \in 1..Len(categorical_cols(d))}]

NoAnalysis == [rows |-> 0, columns |-> 0, numeric_columns |-> 0,
               categorical_columns |-> 0, total_missing |-> 0,
               numeric_summary |-> {}, categorical_summary |-> {}]

\* ------------------------------------------------- input datasets
NamePool == << <<"A", "-", "B">>, <<"A", " ", "B">>, <<" ", "x", ".">> >>

\* lists of k distinct raw column names (the loaders keep names distinct)
NameLists(k) ==
    {[c \in 1..k |-> NamePool[ix[c]]] :
        ix \in {f \in [1..k -> 1..Len(NamePool)] : \A a, b \in 1..k : a < b => f[a] < f[b]}}

FloatCells == {NaN, IntVal(1)}
ObjectCells == {NaN, Str("a")}
ProbeCells == {NaN, IntVal(0), IntVal(100), IntVal(104)}
ObjectProbeCells == {NaN, Str("a"), Str("b")}

ColumnContents(n) ==
    {[dtype |-> "float64", cells |-> f] : f \in [1..n -> FloatCells]}
    \cup {[dtype |-> "object", cells |-> f] : f \in [1..n -> ObjectCells]}

\* a loaded dataset with rows has at least one column
GeneratedDatasets ==
    UNION {UNION {
        {Frame(n, [c \in 1..k |-> Column(names[c], cont[c].dtype, cont[c].cells)]) :
            names \in NameLists(k), cont \in [1..k -> ColumnContents(n)]}
        : k \in (IF n = 0 THEN 0 ELSE 1)..MaxCols} : n \in 0..MaxRows}

\* one-column datasets with more rows and more values
ProbeDatasets ==
    {Frame(ProbeRows, << Column(<<"x">>, "float64", f) >>) :
        f \in [1..ProbeRows -> ProbeCells]}
    \cup {Frame(ProbeRows, << Column(<<"x">>, "object", f) >>) :
        f \in [1..ProbeRows -> ObjectProbeCells]}

Repeat(v, n) == [i \in 1..n |-> v]

Scenario1 == Frame(1, << Column(<<"N", "a", "m", "e", " ">>, "object", <<Str("a")>>),
                         Column(<<"A", "g", "e", "-", "Y", "e", "a", "r", "s">>, "float64",
                                <<IntVal(1)>>) >>)

ScenarioDatasets ==
    { Scenario1,
      Frame(5, << Column(<<"v">>, "int64",
                         <<IntVal(1), IntVal(2), IntVal(3), IntVal(4), IntVal(1000)>>) >>),
      Frame(100, << Column(<<"A", "-", "B">>, "float64",
                           <<IntVal(1), IntVal(2), IntVal(3), IntVal(4)>> \o Repeat(NaN, 96)),
                    Column(<<"x">>, "object", Repeat(Str("a"), 100)) >>),
      Frame(20, << Column(<<"A", "-", "B">>, "float64", <<IntVal(1)>> \o Repeat(NaN, 19)),
                   Column(<<"x">>, "object", Repeat(NaN, 20)) >>),
      Frame(4, << Column(<<"x">>, "object", <<Str("a"), Str("a"), Str("b"), NaN>>) >>),
      Frame(3, << Column(<<"x">>, "object", <<Str("b"), Str("a"), NaN>>) >>),
      Frame(5, << Column(<<"x">>, "float32",
                         <<IntVal(1), IntVal(1), IntVal(5), IntVal(9), NaN>>) >>),
      Frame(3, << Column(<<"b">>, "bool", <<Bool(TRUE), Bool(FALSE), Bool(TRUE)>>),
                  Column(<<"x">>, "float64", <<IntVal(1), NaN, IntVal(3)>>) >>) }

Datasets == GeneratedDatasets \cup ProbeDatasets \cup ScenarioDatasets

\* one-column datasets over every short column name
NameChars == {"A", "b", "1", "_", " ", "-", ".", "\t"}
Names == UNION {[1..n -> NameChars] : n \in 0..MaxNameLen}
NameDatasets ==
    {Frame(1, << Column(name, "object", <<Str("a")>>) >>) : name \in Names}
    \cup {Scenario1}

\* ------------------------------------------------- state
VARIABLES
    file,            \* the dataset stored at file_path
    frames,          \* the DataFrames alive, by reference
    raw_data,        \* self.raw_data: a reference, or None
    cleaned_data,    \* self.cleaned_data: a reference, or None
    cleaning_log,    \* self.cleaning_log
    original_shape,  \* clean_data's local original_shape
    analysis,        \* create_html_dashboard's raw_analysis, cleaned_analysis
    pc,              \* position of run()
    runs,            \* clean_data calls made on this pipeline object
    rerun            \* this pipeline was given the output of an earlier one

vars == <<file, frames, raw_data, cleaned_data, cleaning_log, original_shape,
          analysis, pc, runs, rerun>>

\* a reference for a new DataFrame that leaves `keep` alive
NewFrame(keep) == CHOOSE i \in FrameIds : i # keep

\* the heap after `ref` is bound to a new DataFrame d: what nothing
\* references any more is collected
Store(ref, d) ==
    [i \in FrameIds |-> IF i = ref THEN d
                        ELSE IF i = raw_data THEN frames[i]
                        ELSE NoFrame]

raw == frames[raw_data]
cleaned == frames[cleaned_data]

\* self.cleaned_data = self.raw_data, without copy()
copy_aliased(ref) == ref

\* DataFrame.copy(): the reference of the copy
copy(ref) == NewFrame(ref)

\* imputation moved before duplicate removal
NextStage_impute_first(p) == CASE p = "drop" -> "fill"
                               [] p = "fill" -> "dedup"
                               [] p = "dedup" -> "cap"
                               [] p = "cap" -> "complete"
                               [] OTHER -> "complete"

\* the order of the numbered blocks of clean_data
NextStage(p) == CASE p = "drop" -> "dedup"
                  [] p = "dedup" -> "fill"
                  [] p = "fill" -> "cap"
                  [] p = "cap" -> "complete"
                  [] OTHER -> "complete"

FirstStage == "drop"

\* __init__
Init ==
    /\ file \in Datasets
    /\ frames = [i \in FrameIds |-> NoFrame]
    /\ raw_data = None
    /\ cleaned_data = None
    /\ cleaning_log = <<>>
    /\ original_shape = <<0, 0>>
    /\ analysis = [raw |-> NoAnalysis, cleaned |-> NoAnalysis]
    /\ pc = "constructed"
    /\ runs = 0
    /\ rerun = FALSE

\* __init__, on a file of NameDatasets
InitNames ==
    /\ file \in NameDatasets
    /\ frames = [i \in FrameIds |-> NoFrame]
    /\ raw_data = None
    /\ cleaned_data = None
    /\ cleaning_log = <<>>
    /\ original_shape = <<0, 0>>
    /\ analysis = [raw |-> NoAnalysis, cleaned |-> NoAnalysis]
    /\ pc = "constructed"
    /\ runs = 0
    /\ rerun = FALSE

\* run() up to load_data; at "done" this is run() called once more on the
\* same pipeline object
LoadData ==
    /\ pc \in {"constructed", "done"}
    /\ runs < MaxRuns
    /\ pc = "done" => ~rerun
    /\ LET ref == NewFrame(cleaned_data) IN
        /\ raw_data' = ref
        /\ frames' = [frames EXCEPT ![ref] = file]
    /\ pc' = "loaded"
    /\ UNCHANGED <<file, cleaned_data, cleaning_log, original_shape, analysis, runs, rerun>>

\* clean_data, lines 53-61
StandardizeColumns ==
    /\ pc = "loaded"
    /\ LET ref == copy(raw_data) IN
        /\ cleaned_data' = ref
        /\ frames' = [Store(ref, raw) EXCEPT ![ref] = Renamed(raw)]
    /\ original_shape' = shape(raw)
    /\ cleaning_log' = log_action(cleaning_log,
                          LogRec("Standardized column names", <<>>, NumCols(raw)))
    /\ runs' = runs + 1
    /\ pc' = FirstStage
    /\ UNCHANGED <<file, raw_data, analysis, rerun>>

\* clean_data, lines 63-75
DropColumns ==
    /\ pc = "drop"
    /\ IF HasDuplicateNames(cleaned)
       THEN /\ cleaning_log' = DropRecords(cleaned, 1, FirstAmbiguous(cleaned) - 1, cleaning_log)
            /\ pc' = "error"
            /\ UNCHANGED <<frames, cleaned_data>>
       ELSE /\ IF cols_to_drop(cleaned) # {}
               THEN LET ref == NewFrame(raw_data) IN
                    /\ cleaned_data' = ref
                    /\ frames' = Store(ref, drop(cleaned, cols_to_drop(cleaned)))
                    /\ cleaning_log' = DropRecords(cleaned, 1, NumCols(cleaned), cleaning_log)
               ELSE /\ cleaning_log' = log_action(cleaning_log,
                                          LogRec("No columns dropped", <<>>, 0))
                    /\ UNCHANGED <<frames, cleaned_data>>
            /\ pc' = NextStage("drop")
    /\ UNCHANGED <<file, raw_data, original_shape, analysis, runs, rerun>>

\* clean_data, lines 77-84
RemoveDuplicates ==
    /\ pc = "dedup"
    /\ LET ref == NewFrame(raw_data)
           out == drop_duplicates(cleaned)
           duplicates_removed == cleaned.nrows - out.nrows
       IN
        /\ cleaned_data' = ref
        /\ frames' = Store(ref, out)
        /\ cleaning_log' = log_action(cleaning_log,
              IF duplicates_removed > 0
              THEN LogRec("Removed duplicate rows", <<>>, duplicates_removed)
              ELSE LogRec("No duplicate rows found", <<>>, 0))
    /\ pc' = NextStage("dedup")
    /\ UNCHANGED <<file, raw_data, original_shape, analysis, runs, rerun>>

\* clean_data, lines 86-104
FillMissing ==
    /\ pc = "fill"
    /\ frames' = [frames EXCEPT ![cleaned_data] = Filled(cleaned)]
    /\ cleaning_log' =
          IF missing_filled(cleaned) = 0
          THEN log_action(cleaning_log, LogRec("No missing values to fill", <<>>, 0))
          ELSE FillRecords(cleaned, 1, cleaning_log)
    /\ pc' = NextStage("fill")
    /\ UNCHANGED <<file, raw_data, cleaned_data, original_shape, analysis, runs, rerun>>

\* clean_data, lines 106-125
CapOutliers ==
    /\ pc = "cap"
    /\ frames' = [frames EXCEPT ![cleaned_data] = Capped(cleaned)]
    /\ cleaning_log' =
          IF total_outliers(cleaned) = 0
          THEN log_action(cleaning_log, LogRec("No outliers detected", <<>>, 0))
          ELSE CapRecords(cleaned, 1, cleaning_log)
    /\ pc' = NextStage("cap")
    /\ UNCHANGED <<file, raw_data, cleaned_data, original_shape, analysis, runs, rerun>>

\* clean_data, lines 127-128
Complete ==
    /\ pc = "complete"
    /\ cleaning_log' = log_action(cleaning_log, ShapeRec(original_shape, shape(cleaned)))
    /\ pc' = "cleaned"
    /\ UNCHANGED <<file, frames, raw_data, cleaned_data, original_shape, analysis, runs, rerun>>

\* create_html_dashboard, lines 204-205, and the rest of run()
CreateDashboard ==
    /\ pc = "cleaned"
    /\ analysis' = [raw |-> analyze_data(raw), cleaned |-> analyze_data(cleaned)]
    /\ pc' = "done"
    /\ UNCHANGED <<file, frames, raw_data, cleaned_data, cleaning_log, original_shape, runs, rerun>>

\* a new pipeline object is constructed on the cleaned dataset that the
\* first run of this one wrote
CleanOutputAgain ==
    /\ pc = "done"
    /\ ~rerun
    /\ runs = 1
    /\ file' = cleaned
    /\ frames' = [i \in FrameIds |-> NoFrame]
    /\ raw_data' = None
    /\ cleaned_data' = None
    /\ cleaning_log' = <<>>
    /\ original_shape' = <<0, 0>>
    /\ analysis' = [raw |-> NoAnalysis, cleaned |-> NoAnalysis]
    /\ pc' = "constructed"
    /\ runs' = 0
    /\ rerun' = TRUE

Next ==
    \/ LoadData
    \/ StandardizeColumns
    \/ DropColumns
    \/ RemoveDuplicates
    \/ FillMissing
    \/ CapOutliers
    \/ Complete
    \/ CreateDashboard
    \/ CleanOutputAgain

Spec == Init /\ [][Next]_vars

\* the same pipeline, run on the datasets that enumerate column names
SpecNames == InitNames /\ [][Next]_vars

TypeOK ==
    /\ pc \in {"constructed", "loaded", "drop", "dedup", "fill", "cap",
               "complete", "cleaned", "done", "error"}
    /\ raw_data \in FrameIds \cup {None}
    /\ cleaned_data \in FrameIds \cup {None}
    /\ runs \in 0..MaxRuns

\* ------------------------------------------------- reading the log
Finished == pc \in {"cleaned", "done"}

DropKinds == {"Dropped column", "No columns dropped"}
DupKinds == {"Removed duplicate rows", "No duplicate rows found"}
FillKinds == {"Filled with median", "Filled with mode/Unknown", "No missing values to fill"}
CapKinds == {"Capped outliers", "No outliers detected"}
FilledKinds == {"Filled with median", "Filled with mode/Unknown"}
ChangeKinds == {"Dropped column", "Removed duplicate rows", "Capped outliers"} \cup FilledKinds

HasRecord(log, kinds) == \E i \in 1..Len(log) : log[i].kind \in kinds

\* the records from the last 'Standardized ...' record on
LatestRun ==
    LET starts == {i \in 1..Len(cleaning_log) :
                      cleaning_log[i].kind = "Standardized column names"}
    IN  IF starts = {} THEN <<>>
        ELSE SubSeq(cleaning_log,
                    CHOOSE i \in starts : \A j \in starts : j <= i,
                    Len(cleaning_log))

\* the records a step appended
Appended == SubSeq(cleaning_log', Len(cleaning_log) + 1, Len(cleaning_log'))

\* ------------------------------------------------------------------ C1
\* C1: when clean_data has finished, the cleaned dataset has no missing
\* cell.
C1_NoMissingAfterClean == Finished => count_missing(cleaned) = 0

\* a finished run whose raw dataset had missing cells in a column that
\* survived, and that logged a fill
C1_Witness ==
    /\ pc = "cleaned"
    /\ count_missing(raw) > 0
    /\ NumCols(cleaned) > 0
    /\ cleaned.nrows > 0
    /\ HasRecord(LatestRun, FilledKinds)

\* ------------------------------------------------------------------ C2
\* C2 as stated: in the log of a run every 'Filled ...' / 'No missing
\* values to fill' record comes before the duplicate-removal record.
C2_ImputationBeforeDuplicates ==
    \A i, j \in 1..Len(LatestRun) :
        (LatestRun[i].kind \in FillKinds /\ LatestRun[j].kind \in DupKinds) => i < j

StageRank(kind) == CASE kind = "Standardized column names" -> 1
                     [] kind \in DropKinds -> 2
                     [] kind \in DupKinds -> 3
                     [] kind \in FillKinds -> 4
                     [] kind \in CapKinds -> 5
                     [] OTHER -> 6

\* C2 amended: the records of a run appear in the order standardize,
\* column drop, duplicate removal, imputation, capping, summary; the
\* duplicate-removal record precedes every imputation record, and a
\* finished run has a record of each stage.
C2_DuplicatesBeforeImputation ==
    /\ \A i, j \in 1..Len(LatestRun) :
          i < j => StageRank(LatestRun[i].kind) <= StageRank(LatestRun[j].kind)
    /\ Finished =>
          \A r \in 1..6 : \E i \in 1..Len(LatestRun) : StageRank(LatestRun[i].kind) = r

\* a finished run that removed duplicates and then filled missing cells
C2_Witness ==
    /\ pc = "cleaned"
    /\ HasRecord(LatestRun, {"Removed duplicate rows"})
    /\ HasRecord(LatestRun, FilledKinds)

\* ------------------------------------------------------------------ C3
\* C3 as stated: clean_data on the output of clean_data appends no
\* dropped / removed / filled / capped record and leaves the dataset
\* unchanged.
C3_Idempotent ==
    (rerun /\ Finished) =>
        /\ ~HasRecord(cleaning_log, ChangeKinds)
        /\ cleaned = raw

\* C3 amended: clean_data on the output of clean_data appends no 'Dropped
\* column' and no 'Filled ...' record, keeps every column and its
\* identifier, and its output has no missing cell.
C3_SecondRunDropsAndFillsNothing ==
    (rerun /\ Finished) =>
        /\ ~HasRecord(cleaning_log, {"Dropped column"} \cup FilledKinds)
        /\ columns(cleaned) = columns(raw)
        /\ count_missing(cleaned) = 0

\* a second run that still removed rows from the output of the first
C3_Witness ==
    /\ rerun
    /\ pc = "done"
    /\ HasRecord(cleaning_log, {"Removed duplicate rows"})
    /\ NumCols(cleaned) > 0

\* ------------------------------------------------------------------ C4
DedupStep == pc = "dedup" /\ pc' # "dedup"

\* the first row of d equal to r
FirstIndex(d, r) == CHOOSE i \in 1..d.nrows :
                        Row(d, i) = r /\ \A j \in 1..(i - 1) : Row(d, j) # r

\* what C4 says of the rows in and out of the duplicate-removal step and
\* of the record it logs
DedupContract(in, out, rec) ==
    /\ \A a, b \in 1..out.nrows : a < b => Row(out, a) # Row(out, b)
    /\ \A i \in 1..in.nrows :
          \E a \in 1..out.nrows :
              Row(out, a) = Row(in, i) /\ FirstIndex(in, Row(in, i)) <= i
    /\ \A a \in 1..out.nrows : \E i \in 1..in.nrows : Row(in, i) = Row(out, a)
    /\ \A a, b \in 1..out.nrows :
          a < b => FirstIndex(in, Row(out, a)) < FirstIndex(in, Row(out, b))
    /\ rec = IF in.nrows - out.nrows > 0
             THEN LogRec("Removed duplicate rows", <<>>, in.nrows - out.nrows)
             ELSE LogRec("No duplicate rows found", <<>>, 0)

\* C4 as stated: for every dataset the output of the duplicate-removal
\* step has no two rows identical in every column, every removed row equals
\* an earlier surviving row, the survivors keep their order, and the logged
\* count is rows in minus rows out.
C4_NoDuplicateRows ==
    [][DedupStep => /\ Appended # <<>>
                    /\ DedupContract(cleaned, cleaned', Appended[1])]_vars

\* C4 amended: the same, for every dataset that has at least one column
\* left at that step; with no column left the step removes no row and logs
\* 'No duplicate rows found'.
C4_NoDuplicateRowsGivenColumns ==
    [][DedupStep =>
        /\ Appended # <<>>
        /\ columns(cleaned') = columns(cleaned)
        /\ IF NumCols(cleaned) > 0
           THEN DedupContract(cleaned, cleaned', Appended[1])
           ELSE /\ cleaned' = cleaned
                /\ Appended[1] = LogRec("No duplicate rows found", <<>>, 0)]_vars

\* the step has removed duplicates and kept two different rows
C4_Witness ==
    /\ pc = "fill"
    /\ cleaned.nrows >= 2
    /\ \E i \in 1..Len(LatestRun) :
          LatestRun[i].kind = "Removed duplicate rows" /\ LatestRun[i].n >= 1

\* ------------------------------------------------------------------ C5
CapStep == pc = "cap" /\ pc' # "cap"

MinV(a, b) == IF Less(b, a) THEN b ELSE a
MaxV(a, b) == IF Less(a, b) THEN b ELSE a

StrictlyOutside(cells, lo, hi) ==
    {i \in 1..Len(cells) : Less(cells[i], lo) \/ Less(hi, cells[i])}

\* C5 for one numeric column with cells `in` before the step and `out`
\* after it, and the records the step appended
CapContract(name, in, out, recs) ==
    LET lo == Sub(quantile(in, 1), Scale(Sub(quantile(in, 3), quantile(in, 1)), 3, 1))
        hi == Add(quantile(in, 3), Scale(Sub(quantile(in, 3), quantile(in, 1)), 3, 1))
        n == Cardinality(StrictlyOutside(in, lo, hi))
    IN  /\ Len(out) = Len(in)
        /\ \A i \in 1..Len(in) : out[i] = MinV(MaxV(in[i], lo), hi)
        /\ n > 0 => \E k \in 1..Len(recs) : recs[k] = LogRec("Capped outliers", name, n)
        /\ n = 0 => ~\E k \in 1..Len(recs) :
                        recs[k].kind = "Capped outliers" /\ recs[k].col = name

Scenario2 == <<IntVal(1), IntVal(2), IntVal(3), IntVal(4), IntVal(1000)>>

\* C5: the capping step replaces each cell of each numeric column by
\* min(max(v, lower), upper) with the fences of the column before capping,
\* removes no row, leaves the other columns alone and logs the number of
\* cells strictly outside the fences; [1,2,3,4,1000] has fences [-1, 7] and
\* becomes [1,2,3,4,7] with 'Capped 1 outliers'.
C5_CappedToFences ==
    [][CapStep =>
        /\ cleaned'.nrows = cleaned.nrows
        /\ columns(cleaned') = columns(cleaned)
        /\ \A c \in 1..NumCols(cleaned) :
              IF cleaned.cols[c].dtype \in {"int64", "float64", "float32"}
                 /\ NonNull(cleaned.cols[c].cells) # <<>>
              THEN CapContract(cleaned.cols[c].name, cleaned.cols[c].cells,
                               cleaned'.cols[c].cells, Appended)
              ELSE cleaned'.cols[c] = cleaned.cols[c]
        /\ \A c \in 1..NumCols(cleaned) :
              cleaned.cols[c].cells = Scenario2 =>
                  /\ lower_bound(Scenario2) = IntVal(0 - 1)
                  /\ upper_bound(Scenario2) = IntVal(7)
                  /\ cleaned'.cols[c].cells =
                        <<IntVal(1), IntVal(2), IntVal(3), IntVal(4), IntVal(7)>>
                  /\ Appended = <<LogRec("Capped outliers", cleaned.cols[c].name, 1)>>]_vars

\* the step has capped 1000 to 7 in [1,2,3,4,1000]
C5_Witness ==
    /\ pc = "complete"
    /\ NumCols(cleaned) = 1
    /\ cleaned.cols[1].cells = <<IntVal(1), IntVal(2), IntVal(3), IntVal(4), IntVal(7)>>
    /\ cleaning_log[Len(cleaning_log)] = LogRec("Capped outliers", cleaned.cols[1].name, 1)

\* ------------------------------------------------------------------ C6
DropStep == pc = "drop" /\ pc' \notin {"drop", "error"}

Missing(col) == Cardinality({i \in 1..Len(col.cells) : col.cells[i] = NaN})

\* missing / rows > 0.95, taken as 0 when rows = 0
OverThreshold(col, rows) == rows > 0 /\ 20 * Missing(col) > 19 * rows

\* C6: the column-drop pass removes exactly the columns whose share of
\* missing cells is strictly above 95% (0 rows count as 0%): 19 missing of
\* 20 is kept, 96 missing of 100 is dropped with a '96.0%' record, and a
\* dataset with 0 rows loses no column.
C6_DropAboveThreshold ==
    [][DropStep =>
        /\ cleaned'.nrows = cleaned.nrows
        /\ cleaned'.cols = SelectSeq(cleaned.cols,
                              LAMBDA col : ~OverThreshold(col, cleaned.nrows))
        /\ \A c \in 1..NumCols(cleaned) :
              LET col == cleaned.cols[c] IN
              /\ (cleaned.nrows = 20 /\ Missing(col) = 19) =>
                    \E k \in 1..NumCols(cleaned') : cleaned'.cols[k] = col
              /\ (cleaned.nrows = 100 /\ Missing(col) = 96) =>
                    /\ ~\E k \in 1..NumCols(cleaned') : cleaned'.cols[k].name = col.name
                    /\ \E k \in 1..Len(Appended) :
                          Appended[k] = LogRec("Dropped column", col.name, 960)
        /\ cleaned.nrows = 0 => cleaned'.cols = cleaned.cols
        /\ (cleaned'.cols = cleaned.cols) =
              (Appended = <<LogRec("No columns dropped", <<>>, 0)>>)]_vars

\* the pass has dropped the column with 96 of 100 cells missing
C6_Witness ==
    /\ pc = "dedup"
    /\ cleaned.nrows = 100
    /\ NumCols(cleaned) = 1
    /\ cleaning_log[Len(cleaning_log)] = LogRec("Dropped column", <<"a", "_", "b">>, 960)

\* ------------------------------------------------------------------ C7
FillStep == pc = "fill" /\ pc' # "fill"

\* C7 as stated: the imputation pass fills the missing cells of a numeric
\* column (integer or floating-point of any width) with the median of its
\* non-missing values, those of a categorical column with its most frequent
\* non-missing value or "Unknown", and changes no other cell.
C7_FillByKind ==
    [][FillStep =>
        \A c \in 1..NumCols(cleaned) :
            LET col == cleaned.cols[c]
                out == cleaned'.cols[c].cells
                present == NonNull(col.cells)
                best == {v \in {present[i] : i \in 1..Len(present)} :
                            \A i \in 1..Len(present) :
                                Occurrences(present, present[i]) <= Occurrences(present, v)}
            IN  \A i \in 1..cleaned.nrows :
                   IF ~isnull(col.cells[i]) THEN out[i] = col.cells[i]
                   ELSE IF col.dtype \in {"int64", "float64", "float32"}
                        THEN out[i] = median(col.cells)
                        ELSE IF present = <<>> THEN out[i] = Str("Unknown")
                             ELSE out[i] \in best]_vars

\* ------------------------------------------------------------------ C8
\* C8 as stated: clean_data raises no error on any well-formed dataset,
\* column identifiers that collide after normalization included.
C8_NeverRaises == pc # "error"

\* ------------------------------------------------------------------ C9
\* C9 as stated: after any sequence of clean_data calls the log holds the
\* records of the latest run only, from its 'Standardized ...' record to
\* its 'Cleaning complete' record.
C9_LogOfLatestRunOnly ==
    Finished =>
        /\ cleaning_log = LatestRun
        /\ cleaning_log[1].kind = "Standardized column names"
        /\ cleaning_log[Len(cleaning_log)].kind = "Cleaning complete"
        /\ Cardinality({i \in 1..Len(cleaning_log) :
                           cleaning_log[i].kind = "Cleaning complete"}) = 1

\* ------------------------------------------------------------------ C10
\* C10: whatever clean_data and analyze_data have done, raw_data holds the
\* dataset as it was loaded, and the raw analysis made after cleaning is
\* the analysis of that dataset.
C10_RawDataUnchanged ==
    /\ raw_data # None => raw = file
    /\ pc = "done" => analysis.raw = analyze_data(file)

\* cleaning has changed the working copy of a dataset with missing cells,
\* and both analyses have run
C10_Witness ==
    /\ pc = "done"
    /\ cleaned # raw
    /\ columns(cleaned) # columns(raw)
    /\ count_missing(raw) > 0
    /\ analysis.raw.total_missing > 0

\* ------------------------------------------------------------------ C11
StandardizeStep == pc = "loaded" /\ pc' # "loaded"

\* [a-z0-9_]
LowerWordChars == {LowerCase[i] : i \in 1..Len(LowerCase)} \cup Digits \cup {"_"}

\* name without its leading and trailing blanks and tabs
Trimmed(name) ==
    LET inner == {i \in 1..Len(name) : name[i] \notin {" ", "\t"}}
    IN  IF inner = {} THEN <<>>
        ELSE SubSeq(name, CHOOSE i \in inner : \A j \in inner : i <= j,
                          CHOOSE i \in inner : \A j \in inner : j <= i)

\* what C11 maps one character of the trimmed name to
NormalChar(c) ==
    IF c \in {" ", "-"} THEN <<"_">>
    ELSE IF \E i \in 1..26 : UpperCase[i] = c
         THEN <<LowerCase[CHOOSE i \in 1..26 : UpperCase[i] = c]>>
    ELSE IF c \in LowerWordChars THEN <<c>>
    ELSE <<>>

RECURSIVE NormalChars(_)
NormalChars(name) == IF name = <<>> THEN <<>>
                     ELSE NormalChar(Head(name)) \o NormalChars(Tail(name))

NormalName(name) == NormalChars(Trimmed(name))

\* C11: normalization maps each identifier to its trimmed, lowercased
\* form with spaces and hyphens as underscores and every other character
\* outside [a-zA-Z0-9_] deleted; the result has characters of [a-z0-9_]
\* only, normalizing it again returns it unchanged, and ["Name ",
\* "Age-Years"] becomes ["name", "age_years"].
C11_NormalizedNames ==
    [][StandardizeStep =>
        /\ NumCols(cleaned') = NumCols(raw)
        /\ \A c \in 1..NumCols(raw) :
              LET new == cleaned'.cols[c].name IN
              /\ new = NormalName(raw.cols[c].name)
              /\ \A i \in 1..Len(new) : new[i] \in LowerWordChars
              /\ Standardize(new) = new
        /\ rerun => columns(cleaned') = columns(raw)
        /\ columns(raw) = columns(Scenario1) =>
              columns(cleaned') = << <<"n", "a", "m", "e">>,
                                     <<"a", "g", "e", "_", "y", "e", "a", "r", "s">> >>]_vars

\* ["Name ", "Age-Years"] has been normalized to ["name", "age_years"]
C11_Witness ==
    /\ pc = "drop"
    /\ columns(raw) = columns(Scenario1)
    /\ columns(cleaned) = << <<"n", "a", "m", "e">>,
                             <<"a", "g", "e", "_", "y", "e", "a", "r", "s">> >>

\* ------------------------------------------------------------------ C12
\* every column of d is counted and summarized as exactly one of numeric
\* and categorical in the analysis a
Classified(a, d) ==
    /\ a.numeric_columns + a.categorical_columns = a.columns
    /\ a.columns = NumCols(d)
    /\ a.numeric_summary \cap a.categorical_summary = {}
    /\ a.numeric_summary \cup a.categorical_summary =
          {d.cols[c].name : c \in 1..NumCols(d)}

\* C12 as stated: analyze_data classifies every column, boolean columns
\* included, as exactly one of numeric and categorical, so the two counts
\* add up to the column count and every column has one summary entry.
C12_EveryColumnClassified ==
    pc = "done" => /\ Classified(analysis.raw, raw)
                   /\ Classified(analysis.cleaned, cleaned)

\* ------------------------------------------------------------------ C13
CountKind(log, kinds) == Cardinality({i \in 1..Len(log) : log[i].kind \in kinds})

\* a rule logged its per-item records or its one no-op record, not both
\* and not neither
ItemsOrNoOp(log, items, noop) ==
    \/ CountKind(log, items) > 0 /\ CountKind(log, {noop}) = 0
    \/ CountKind(log, items) = 0 /\ CountKind(log, {noop}) = 1

\* the shape C13 gives the log of one finished run on `columnCount`
\* input columns
RunLogShape(log, columnCount) ==
    /\ Len(log) >= 6
    /\ log[1] = LogRec("Standardized column names", <<>>, columnCount)
    /\ CountKind(log, {"Standardized column names"}) = 1
    /\ log[Len(log)].kind = "Cleaning complete"
    /\ CountKind(log, {"Cleaning complete"}) = 1
    /\ ItemsOrNoOp(log, {"Dropped column"}, "No columns dropped")
    /\ ItemsOrNoOp(log, FilledKinds, "No missing values to fill")
    /\ ItemsOrNoOp(log, {"Removed duplicate rows"}, "No duplicate rows found")
    /\ CountKind(log, {"Removed duplicate rows"}) <= 1
    /\ ItemsOrNoOp(log, {"Capped outliers"}, "No outliers detected")

IsPrefix(a, b) == Len(a) <= Len(b) /\ SubSeq(b, 1, Len(a)) = a

\* C13: a step of a run only appends to the log, and the records of a
\* finished run are: one 'Standardized n column names' record first (n the
\* number of input columns), one 'Cleaning complete' record last, and for
\* each of the four rules either its per-item records or its single no-op
\* record.
C13_RunLogShape ==
    [][/\ ~(pc = "done" /\ pc' = "constructed") => IsPrefix(cleaning_log, cleaning_log')
       /\ (pc = "complete" /\ pc' = "cleaned") =>
              /\ RunLogShape(LatestRun', NumCols(raw))
              /\ LatestRun'[Len(LatestRun')] = ShapeRec(shape(raw), shape(cleaned))]_vars

\* a finished run with per-item records of one rule and the no-op record
\* of another
C13_Witness ==
    /\ pc = "cleaned"
    /\ HasRecord(LatestRun, FilledKinds)
    /\ HasRecord(LatestRun, {"Dropped column"})
    /\ HasRecord(LatestRun, {"No duplicate rows found"})
    /\ HasRecord(LatestRun, {"No outliers detected"})

\* ------------------------------------------------------------------ C14
\* the columns of `out` are columns of `in`, in the order they have there
KeepsColumnOrder(in, out) ==
    \E f \in [1..NumCols(out) -> 1..NumCols(in)] :
        /\ \A a, b \in 1..NumCols(out) : a < b => f[a] < f[b]
        /\ \A a \in 1..NumCols(out) : out.cols[a] = in.cols[f[a]]

\* C14: normalization, imputation and capping keep the row count and the
\* column count; the column-drop pass keeps the rows and only removes
\* columns, the rest staying in order; duplicate removal keeps the columns
\* and only removes rows; so the cleaned dataset never has more rows or
\* more columns than the raw one.
C14_StagesKeepTheirDimension ==
    [][/\ StandardizeStep => shape(cleaned') = shape(raw)
       /\ pc = "drop" =>
              /\ cleaned'.nrows = cleaned.nrows
              /\ NumCols(cleaned') <= NumCols(cleaned)
              /\ KeepsColumnOrder(cleaned, cleaned')
       /\ DedupStep =>
              /\ columns(cleaned') = columns(cleaned)
              /\ cleaned'.nrows <= cleaned.nrows
       /\ (FillStep \/ CapStep) =>
              /\ shape(cleaned') = shape(cleaned)
              /\ columns(cleaned') = columns(cleaned)
       /\ pc \in {"complete", "cleaned"} => cleaned' = cleaned
       /\ (raw_data' # None /\ cleaned_data' # None) =>
              /\ cleaned'.nrows <= raw'.nrows
              /\ NumCols(cleaned') <= NumCols(raw')]_vars

\* a finished run that lost a column to the drop pass and a row to
\* duplicate removal, and kept some of both
C14_Witness ==
    /\ pc = "cleaned"
    /\ 0 < cleaned.nrows /\ cleaned.nrows < raw.nrows
    /\ 0 < NumCols(cleaned) /\ NumCols(cleaned) < NumCols(raw)
    /\ HasRecord(LatestRun, FilledKinds)

====
